---- MODULE Spec2Model ----
(***************************************************************************)
(* A model of diarize_segments (src/diarization.py): one call of the       *)
(* function, from the dependency check to the returned list or the raised  *)
(* exception.  Each phase of the function body is one action.              *)
(*                                                                         *)
(* Python values are tagged records [kind, v]:                              *)
(*   "int"    the int v            "float"  the float v                    *)
(*   "numstr" a string that float() parses to v                            *)
(*   "str"    the v-th string that float() rejects (v = 0 is "")           *)
(*   "none"   None                 "label"  the string "Speaker v"         *)
(* A dict is a function from a set of keys (strings) to such values.       *)
(* Times are counted in half sample periods, 1/(2*sr) seconds, so that     *)
(* time*sr is v/2 and round() has halves to round.  Times are finite.      *)
(***************************************************************************)
EXTENDS Integers, Sequences, FiniteSets, TLC

VARIABLES
    deps,         \* environment: numpy, librosa and sklearn can be imported
    fileSamples,  \* environment: samples librosa.load decodes, -1: it raises
    segments,     \* argument: the list of segment dicts
    n_speakers,   \* argument: None or an int
    pc,           \* position in the function body
    sanitized,    \* the list built by the validate/normalize loop
    loads,        \* number of librosa.load calls made
    audio,        \* length of the loaded waveform
    feats,        \* per segment, the samples its MFCC vector was computed from
    n_clusters,   \* n_speakers after defaulting and clamping (0: not yet)
    fitCalls,     \* number of AgglomerativeClustering.fit_predict calls made
    labels,       \* cluster id per row of X
    results,      \* the list returned
    raised        \* the exception raised, "none" if none

vars == << deps, fileSamples, segments, n_speakers, pc, sanitized, loads,
           audio, feats, n_clusters, fitCalls, labels, results, raised >>

\* ---------------------------------------------------------------- bounds
MaxSegs == 3
MaxAudio == 3
MaxSpeakers == 4

\* ------------------------------------------------------- program constants
SR == 16000
DefaultSpeakers == 2

\* ---------------------------------------------------------- Python values
PyInt(t) == [kind |-> "int", v |-> t]
PyFloat(t) == [kind |-> "float", v |-> t]
NumStr(t) == [kind |-> "numstr", v |-> t]
Str(i) == [kind |-> "str", v |-> i]
PyNone == [kind |-> "none", v |-> 0]

Min(a, b) == IF a < b THEN a ELSE b
Max(a, b) == IF a > b THEN a ELSE b

\* float(x) succeeds
CanFloat(x) == x.kind \in {"int", "float", "numstr"}

\* float(x), for x with CanFloat(x)
ToFloat(x) == PyFloat(x.v)

\* the dict d without the keys in ks
Without(d, ks) == [k \in (DOMAIN d) \ ks |-> d[k]]

\* d.get(k, dflt)
Get(d, k, dflt) == IF k \in DOMAIN d THEN d[k] ELSE dflt

\* -------------------------------------------------------------- validation
\* SanitizeOne with the ordering test written end < start
SanitizeOneStrict(s) ==
    IF ~ ("start" \in DOMAIN s /\ "end" \in DOMAIN s) THEN [ok |-> FALSE]
    ELSE IF ~ (CanFloat(s["start"]) /\ CanFloat(s["end"])) THEN [ok |-> FALSE]
    ELSE IF ToFloat(s["end"]).v < ToFloat(s["start"]).v THEN [ok |-> FALSE]
    ELSE [ok |-> TRUE,
          seg |-> ("start" :> ToFloat(s["start"])) @@ ("end" :> ToFloat(s["end"]))
                  @@ Without(s, {"start", "end"})]

\* One iteration of the validate/normalize loop: the float() conversions,
\* the end <= start test, and the dict that is appended.
SanitizeOne(s) ==
    IF ~ ("start" \in DOMAIN s /\ "end" \in DOMAIN s) THEN [ok |-> FALSE]
    ELSE IF ~ (CanFloat(s["start"]) /\ CanFloat(s["end"])) THEN [ok |-> FALSE]
    ELSE IF ToFloat(s["end"]).v <= ToFloat(s["start"]).v THEN [ok |-> FALSE]
    ELSE [ok |-> TRUE,
          seg |-> ("start" :> ToFloat(s["start"])) @@ ("end" :> ToFloat(s["end"]))
                  @@ Without(s, {"start", "end"})]

RECURSIVE SanitizeFrom(_, _, _)
SanitizeFrom(segs, i, acc) ==
    IF i > Len(segs) THEN [ok |-> TRUE, out |-> acc]
    ELSE LET r == SanitizeOne(segs[i])
         IN  IF r.ok THEN SanitizeFrom(segs, i + 1, Append(acc, r.seg))
             ELSE [ok |-> FALSE, out |-> << >>]

\* Sanitize with the loop starting at the second segment
SanitizeSkipFirst(segs) == SanitizeFrom(segs, 2, << >>)

\* The whole loop: the sanitized list, or the ValueError of the first
\* segment that fails.
Sanitize(segs) == SanitizeFrom(segs, 1, << >>)

\* ------------------------------------------------------ feature extraction
\* int(round(t * sr)) for a time of t half sample periods: t/2 rounded to
\* the nearest integer, a half going to the even neighbour.
SampleIndex(t) ==
    LET f == t \div 2
    IN  IF t % 2 = 0 THEN f
        ELSE IF f % 2 = 0 THEN f ELSE f + 1

\* Where index i of a slice bound falls in an array of length len: a
\* negative index counts from the end, and both ends are clipped.
SliceBound(len, i) == IF i < 0 THEN Max(i + len, 0) ELSE Min(i, len)

\* int(0.1 * sr), the length of the zero buffer
SilenceLen == SR \div 10

\* One iteration of the feature loop: the samples audio[s_idx:e_idx] the
\* MFCC vector of seg is computed from, or the zero buffer when that slice
\* is empty.
Feature(len, seg) ==
    LET start == Max(0, seg["start"].v)
        end   == seg["end"].v
        s_idx == SampleIndex(start)
        e_idx == SampleIndex(end)
        lo    == SliceBound(len, s_idx)
        hi    == SliceBound(len, e_idx)
    IN  IF hi - lo <= 0
        THEN [src |-> "silence", lo |-> 0, hi |-> SilenceLen]
        ELSE [src |-> "audio", lo |-> lo, hi |-> hi]

\* ExtractAll with an empty slice skipped instead of padded
ExtractAllDropEmpty(len, segs) ==
    SelectSeq([i \in 1..Len(segs) |-> Feature(len, segs[i])],
              LAMBDA f : f.src # "silence")

\* The whole feature loop: one entry per sanitized segment, in order.
ExtractAll(len, segs) == [i \in 1..Len(segs) |-> Feature(len, segs[i])]

\* --------------------------------------------------------------- clustering
\* ResolveSpeakers with None taken as one speaker per row
ResolveSpeakersPerRow(req, n) ==
    LET k == IF req = PyNone THEN n ELSE req.v
    IN  Max(1, Min(k, n))

\* n_speakers after the default and the clamp, for n rows of X
ResolveSpeakers(req, n) ==
    LET k == IF req = PyNone THEN DefaultSpeakers ELSE req.v
    IN  Max(1, Min(k, n))

\* What AgglomerativeClustering(n_clusters=k).fit_predict may return for n
\* rows: one cluster id in 0..k-1 per row.
ClusterOutputs(n, k) == [1..n -> 0..(k - 1)]

\* ---------------------------------------------------------- label assignment
\* f"Speaker {j}"
Label(j) == [kind |-> "label", v |-> j]

\* The value speaker_counter starts from
FirstSpeaker == 1

\* The dict appended to results for one segment
OutputRecord(seg, speaker) ==
    ("start" :> ToFloat(seg["start"])) @@ ("end" :> ToFloat(seg["end"]))
    @@ ("text" :> Get(seg, "text", Str(0))) @@ ("speaker" :> speaker)

\* The loop over zip(sanitized, labels) from position i on, with the dict
\* cluster_to_speaker (map) and speaker_counter (counter) as they stand.
RECURSIVE AssignFrom(_, _, _, _, _, _)
AssignFrom(segs, labs, i, map, counter, acc) ==
    IF i > Min(Len(segs), Len(labs)) THEN acc
    ELSE LET label == labs[i]
             seen  == label \in DOMAIN map
             map2  == IF seen THEN map ELSE (label :> Label(counter)) @@ map
             cnt2  == IF seen THEN counter ELSE counter + 1
         IN  AssignFrom(segs, labs, i + 1, map2, cnt2,
                        Append(acc, OutputRecord(segs[i], map2[label])))

\* AssignLabels with the label number taken from the cluster id
AssignByClusterId(segs, labs) ==
    [i \in 1..Min(Len(segs), Len(labs)) |->
        OutputRecord(segs[i], Label(labs[i] + 1))]

\* AssignLabels with speaker_counter starting from 0
AssignLabelsFromZero(segs, labs) ==
    AssignFrom(segs, labs, 1, [c \in {} |-> Label(0)], 0, << >>)

AssignLabels(segs, labs) ==
    AssignFrom(segs, labs, 1, [c \in {} |-> Label(0)], FirstSpeaker, << >>)

\* The result of the len(feats) == 0 branch
AllSpeakerOne(segs) ==
    [i \in 1..Len(segs) |-> OutputRecord(segs[i], Label(1))]

\* ------------------------------------------------------------------ inputs
Seg(start, end) == ("start" :> start) @@ ("end" :> end)
WithText(d, i) == ("text" :> Str(i)) @@ d

\* Segments that pass validation.  With sample indices in brackets:
\* [0,2), from 0.5 and 1.5 samples; [2,4), from the string "2.5 samples"
\* and a float, with further keys and no text; [0,-2), wholly before time 0.
ValidPool ==
    { WithText(Seg(PyInt(1), PyInt(3)), 1),
      Seg(NumStr(5), PyFloat(8)) @@ ("id" :> PyInt(7)) @@ ("speaker" :> Str(3)),
      WithText(Seg(PyInt(-8), PyInt(-3)), 2) }

\* Segments that fail validation: end == start, end < start, a start that
\* float() rejects, no end.
InvalidPool ==
    { WithText(Seg(PyInt(4), PyFloat(4)), 1),
      WithText(Seg(PyFloat(4), PyInt(0)), 2),
      Seg(Str(5), PyInt(4)),
      WithText("start" :> PyInt(0), 1) }

SegPool == ValidPool \cup InvalidPool

SegLists == UNION { [1..n -> SegPool] : n \in 0..MaxSegs }

SpeakerArgs == {PyNone} \cup { PyInt(k) : k \in (-1)..MaxSpeakers }

\* ------------------------------------------------------------- the call
Init ==
    /\ deps \in BOOLEAN
    /\ fileSamples \in (-1)..MaxAudio
    /\ segments \in SegLists
    /\ n_speakers \in SpeakerArgs
    /\ pc = "call"
    /\ sanitized = << >>
    /\ loads = 0
    /\ audio = 0
    /\ feats = << >>
    /\ n_clusters = 0
    /\ fitCalls = 0
    /\ labels = << >>
    /\ results = << >>
    /\ raised = "none"

\* RequireDeps with the check left out of the entry of the call
RequireDepsSkipped ==
    /\ pc = "call"
    /\ pc' = "check_empty"
    /\ UNCHANGED << deps, fileSamples, segments, n_speakers, sanitized, loads,
                    audio, feats, n_clusters, fitCalls, labels, results, raised >>

\* _require_deps()
RequireDeps ==
    /\ pc = "call"
    /\ IF deps
       THEN pc' = "check_empty" /\ raised' = raised
       ELSE pc' = "raised" /\ raised' = "RuntimeError"
    /\ UNCHANGED << deps, fileSamples, segments, n_speakers, sanitized, loads,
                    audio, feats, n_clusters, fitCalls, labels, results >>

\* CheckEmpty without the early return
CheckEmptyNoReturn ==
    /\ pc = "check_empty"
    /\ pc' = "validate"
    /\ UNCHANGED << deps, fileSamples, segments, n_speakers, sanitized, loads,
                    audio, feats, n_clusters, fitCalls, labels, results, raised >>

\* if not segments: return []
CheckEmpty ==
    /\ pc = "check_empty"
    /\ IF segments = << >>
       THEN pc' = "returned" /\ results' = << >>
       ELSE pc' = "validate" /\ results' = results
    /\ UNCHANGED << deps, fileSamples, segments, n_speakers, sanitized, loads,
                    audio, feats, n_clusters, fitCalls, labels, raised >>

\* Validate with the audio loaded before the loop runs
ValidateAfterLoad ==
    /\ pc = "validate"
    /\ loads' = loads + 1
    /\ LET r == Sanitize(segments)
       IN  IF fileSamples < 0
           THEN pc' = "raised" /\ sanitized' = sanitized /\ raised' = "LoadError"
           ELSE IF r.ok
           THEN pc' = "extract" /\ sanitized' = r.out /\ raised' = raised
           ELSE pc' = "raised" /\ sanitized' = sanitized /\ raised' = "ValueError"
    /\ audio' = IF fileSamples < 0 THEN audio ELSE fileSamples
    /\ UNCHANGED << deps, fileSamples, segments, n_speakers,
                    feats, n_clusters, fitCalls, labels, results >>

\* the validate/normalize loop
Validate ==
    /\ pc = "validate"
    /\ LET r == Sanitize(segments)
       IN  IF r.ok
           THEN pc' = "load" /\ sanitized' = r.out /\ raised' = raised
           ELSE pc' = "raised" /\ sanitized' = sanitized /\ raised' = "ValueError"
    /\ UNCHANGED << deps, fileSamples, segments, n_speakers, loads, audio,
                    feats, n_clusters, fitCalls, labels, results >>

\* librosa.load(file_path, sr=sr, mono=True)
LoadAudio ==
    /\ pc = "load"
    /\ loads' = loads + 1
    /\ IF fileSamples < 0
       THEN pc' = "raised" /\ raised' = "LoadError" /\ audio' = audio
       ELSE pc' = "extract" /\ raised' = raised /\ audio' = fileSamples
    /\ UNCHANGED << deps, fileSamples, segments, n_speakers, sanitized,
                    feats, n_clusters, fitCalls, labels, results >>

\* the feature loop, and the len(feats) == 0 return after it
ExtractFeatures ==
    /\ pc = "extract"
    /\ feats' = ExtractAll(audio, sanitized)
    /\ IF Len(feats') = 0
       THEN pc' = "returned" /\ results' = AllSpeakerOne(sanitized)
       ELSE pc' = "cluster" /\ results' = results
    /\ UNCHANGED << deps, fileSamples, segments, n_speakers, sanitized, loads,
                    audio, n_clusters, fitCalls, labels, raised >>

\* n_speakers == 1 or X.shape[0] == 1: labels = [0] * X.shape[0]
SkipClustering ==
    /\ pc = "cluster"
    /\ LET n == Len(feats)
           k == ResolveSpeakers(n_speakers, n)
       IN  /\ k = 1 \/ n = 1
           /\ n_clusters' = k
           /\ labels' = [i \in 1..n |-> 0]
    /\ pc' = "assign"
    /\ UNCHANGED << deps, fileSamples, segments, n_speakers, sanitized, loads,
                    audio, feats, fitCalls, results, raised >>

\* AgglomerativeClustering(n_clusters=n_speakers).fit_predict(X)
RunClustering ==
    /\ pc = "cluster"
    /\ LET n == Len(feats)
           k == ResolveSpeakers(n_speakers, n)
       IN  /\ ~ (k = 1 \/ n = 1)
           /\ n_clusters' = k
           /\ \E out \in ClusterOutputs(n, k) : labels' = out
    /\ fitCalls' = fitCalls + 1
    /\ pc' = "assign"
    /\ UNCHANGED << deps, fileSamples, segments, n_speakers, sanitized, loads,
                    audio, feats, results, raised >>

\* the loop over zip(sanitized, labels), and return results
AssignSpeakers ==
    /\ pc = "assign"
    /\ results' = AssignLabels(sanitized, labels)
    /\ pc' = "returned"
    /\ UNCHANGED << deps, fileSamples, segments, n_speakers, sanitized, loads,
                    audio, feats, n_clusters, fitCalls, labels, raised >>

Next ==
    \/ RequireDeps
    \/ CheckEmpty
    \/ Validate
    \/ LoadAudio
    \/ ExtractFeatures
    \/ SkipClustering
    \/ RunClustering
    \/ AssignSpeakers

Spec == Init /\ [][Next]_vars

\* ------------------------------------------------------ words of the claims
Positions == 1..Len(segments)

\* start and end are present, convert to numbers, and end > start
ValidSegment(s) ==
    /\ "start" \in DOMAIN s /\ "end" \in DOMAIN s
    /\ CanFloat(s["start"]) /\ CanFloat(s["end"])
    /\ s["end"].v > s["start"].v

\* a start or end is missing or does not convert, or end <= start
InvalidSegment(s) ==
    \/ "start" \notin DOMAIN s \/ "end" \notin DOMAIN s
    \/ ~ CanFloat(s["start"]) \/ ~ CanFloat(s["end"])
    \/ s["end"].v <= s["start"].v

AllValid == \A i \in Positions : ValidSegment(segments[i])
SomeInvalid == \E i \in Positions : InvalidSegment(segments[i])

NonEmptyString(x) ==
    \/ x.kind = "label"
    \/ x.kind = "numstr"
    \/ x.kind = "str" /\ x.v # 0

SpeakersOf(res) == { res[i]["speaker"] : i \in 1..Len(res) }

\* ------------------------------------------------------------------ claims

\* C1: with the dependencies present, an audio file that loads and a
\* non-empty list of segments that each have numeric start/end with
\* end > start, the call never raises, and what it returns has one record
\* per input segment, in input order (record i has the start and end of
\* segment i), each with a non-empty 'speaker' string; for every n_speakers.
C1_Totality ==
    (deps /\ fileSamples >= 0 /\ segments # << >> /\ AllValid) =>
        /\ pc # "raised"
        /\ raised = "none"
        /\ pc = "returned" =>
            /\ Len(results) = Len(segments)
            /\ \A i \in Positions :
                /\ results[i]["start"].v = segments[i]["start"].v
                /\ results[i]["end"].v = segments[i]["end"].v
                /\ "speaker" \in DOMAIN results[i]
                /\ NonEmptyString(results[i]["speaker"])

\* C1 witness: three valid segments and more speakers requested than there
\* are segments; the call has returned three labelled records.
C1_Witness ==
    /\ pc = "returned"
    /\ Len(segments) = 3 /\ AllValid
    /\ n_speakers.kind = "int" /\ n_speakers.v > Len(segments)
    /\ Len(results) = 3
    /\ Cardinality(SpeakersOf(results)) = 3

\* C2: labels are numbered in first-appearance order, for every cluster-id
\* sequence: record i is "Speaker j" with j the rank of its cluster id among
\* the distinct ids ordered by first occurrence.  So the first record is
\* "Speaker 1", the labels used are Speaker 1..Speaker m with m the number
\* of distinct ids, and two records share a label iff they share an id.
FirstOccurrence(labs, c) ==
    CHOOSE i \in 1..Len(labs) : labs[i] = c /\ \A j \in 1..(i - 1) : labs[j] # c

AppearanceRank(labs, i) ==
    Cardinality({ labs[j] : j \in 1..FirstOccurrence(labs, labs[i]) })

C2_FirstAppearance ==
    (pc = "returned" /\ labels # << >>) =>
        /\ Len(results) = Len(labels)
        /\ \A i \in 1..Len(labels) :
              results[i]["speaker"] = Label(AppearanceRank(labels, i))
        /\ results[1]["speaker"] = Label(1)
        /\ SpeakersOf(results) =
              { Label(j) : j \in 1..Cardinality({ labels[i] : i \in 1..Len(labels) }) }
        /\ \A i, j \in 1..Len(labels) :
              (results[i]["speaker"] = results[j]["speaker"]) <=> (labels[i] = labels[j])

\* C2 witness: the clusterer numbered the second speaker 0 and the first 1;
\* the records read Speaker 1, Speaker 2, Speaker 1.
C2_Witness ==
    /\ pc = "returned"
    /\ labels = << 1, 0, 1 >>
    /\ [i \in 1..3 |-> results[i]["speaker"]] = << Label(1), Label(2), Label(1) >>

\* C3: with the dependencies present, if any segment of the list has
\* end <= start, or a start/end that is missing or does not convert to a
\* number, the call ends in the ValueError of validation and returns no
\* list, whatever the other segments, the audio file and n_speakers are.
C3_InvalidRaises ==
    (deps /\ SomeInvalid) =>
        /\ pc \in {"call", "check_empty", "validate", "raised"}
        /\ pc = "raised" => raised = "ValueError"
        /\ results = << >>

\* C3 witness: two valid segments, then one with end == start, and an audio
\* file that cannot be loaded; the call has raised ValueError.
C3_Witness ==
    /\ pc = "raised" /\ raised = "ValueError"
    /\ Len(segments) = 3
    /\ ValidSegment(segments[1]) /\ ValidSegment(segments[2])
    /\ CanFloat(segments[3]["start"]) /\ "end" \in DOMAIN segments[3]
    /\ segments[3]["end"].v = segments[3]["start"].v
    /\ fileSamples = -1

\* C4: when some segment is invalid, the audio is never loaded and no
\* feature is ever extracted, wherever in the list the invalid segment is.
C4_FailFast ==
    SomeInvalid => (loads = 0 /\ audio = 0 /\ feats = << >>)

\* C4 witness: the only invalid segment is the last of three; validation has
\* raised and nothing was loaded.
C4_Witness ==
    /\ pc = "raised" /\ raised = "ValueError"
    /\ Len(segments) = 3
    /\ ValidSegment(segments[1]) /\ ValidSegment(segments[2])
    /\ InvalidSegment(segments[3])
    /\ fileSamples >= 0
    /\ loads = 0

\* C5: with the dependencies present, a call with an empty list returns an
\* empty list and raises nothing; the audio is never loaded, whether or not
\* the file can be, and the clusterer is never run.
C5_EmptyInput ==
    (deps /\ segments = << >>) =>
        /\ pc \in {"call", "check_empty", "returned"}
        /\ raised = "none"
        /\ results = << >>
        /\ loads = 0 /\ feats = << >> /\ fitCalls = 0

\* C5 witness: the call has returned for an empty list and an audio file
\* that cannot be loaded.
C5_Witness ==
    /\ pc = "returned"
    /\ segments = << >>
    /\ fileSamples = -1
    /\ results = << >>

\* C6: the speaker count used is n_speakers if given, else 2, clamped to
\* [1, number of segments]; the returned list never holds more distinct
\* labels than that count; a request <= 0 leaves only "Speaker 1"; and when
\* the count is 1 the clusterer is not invoked.
RequestedCount == IF n_speakers = PyNone THEN 2 ELSE n_speakers.v

ResolvedCount == Min(Max(1, RequestedCount), Len(segments))

C6_SpeakerCap ==
    (pc \in {"assign", "returned"} /\ segments # << >>) =>
        /\ n_clusters = ResolvedCount
        /\ ResolvedCount = 1 => fitCalls = 0
        /\ pc = "returned" =>
            /\ Cardinality(SpeakersOf(results)) <= ResolvedCount
            /\ RequestedCount <= 0 => SpeakersOf(results) = {Label(1)}

\* C6 witness: three segments and a negative request; the call has returned
\* with "Speaker 1" alone and without the clusterer.
C6_Witness ==
    /\ pc = "returned"
    /\ Len(segments) = 3
    /\ n_speakers = PyInt(-1)
    /\ SpeakersOf(results) = {Label(1)}
    /\ fitCalls = 0

\* C7: with the dependencies present and an audio file that loads, a call
\* with exactly one valid segment never raises, never invokes the clusterer,
\* and returns one record labelled "Speaker 1" (cluster id 0), for every
\* n_speakers.
C7_SingleSegment ==
    (deps /\ fileSamples >= 0 /\ Len(segments) = 1 /\ AllValid) =>
        /\ pc # "raised"
        /\ fitCalls = 0
        /\ pc = "returned" =>
            /\ labels = << 0 >>
            /\ Len(results) = 1
            /\ results[1]["speaker"] = Label(1)

\* C7 witness: one segment and more than one speaker requested; the call has
\* returned its one record.
C7_Witness ==
    /\ pc = "returned"
    /\ Len(segments) = 1
    /\ n_speakers.kind = "int" /\ n_speakers.v > 1
    /\ Len(results) = 1

\* C8: a valid segment whose sample range [round(max(0,start)*sr),
\* round(end*sr)) holds no index of the loaded waveform raises no error and
\* is not dropped: its feature vector comes from the silence buffer, and the
\* returned list has a labelled record at its position, with one record per
\* segment in input order.
RangeOf(seg) ==
    SampleIndex(Max(0, seg["start"].v))..(SampleIndex(seg["end"].v) - 1)

SelectsNoSamples(seg, len) == RangeOf(seg) \cap 0..(len - 1) = {}

C8_EmptyRangeLabelled ==
    (deps /\ fileSamples >= 0 /\ segments # << >> /\ AllValid) =>
        /\ pc # "raised"
        /\ feats # << >> =>
            /\ Len(feats) = Len(segments)
            /\ \A i \in Positions :
                  SelectsNoSamples(sanitized[i], audio) => feats[i].src = "silence"
        /\ pc = "returned" =>
            /\ Len(results) = Len(segments)
            /\ \A i \in Positions :
                /\ results[i]["start"].v = segments[i]["start"].v
                /\ NonEmptyString(results[i]["speaker"])

\* C9: record i of the returned list has the start and end of segment i as
\* floats and its text, every other key of segment i with its value, and no
\* key besides 'speaker' that segment i does not have.
C9_PassThrough ==
    pc = "returned" =>
        /\ Len(results) = Len(segments)
        /\ \A i \in Positions :
            /\ results[i]["start"] = ToFloat(segments[i]["start"])
            /\ results[i]["end"] = ToFloat(segments[i]["end"])
            /\ \A k \in (DOMAIN segments[i]) \ {"start", "end", "speaker"} :
                  k \in DOMAIN results[i] /\ results[i][k] = segments[i][k]
            /\ (DOMAIN results[i]) \ {"speaker"} \subseteq DOMAIN segments[i]

\* C10: validation is idempotent: running the validate/normalize loop on the
\* list it produced succeeds and yields that list again (same length, order,
\* start/end values, other keys and values).
C10_ValidateIdempotent ==
    sanitized # << >> => Sanitize(sanitized) = [ok |-> TRUE, out |-> sanitized]

\* C10 witness: validation has produced three segments from an input with a
\* string start and further keys.
C10_Witness ==
    /\ Len(sanitized) = 3
    /\ \E i \in Positions :
          segments[i]["start"].kind = "numstr" /\ "id" \in DOMAIN segments[i]
    /\ sanitized # segments

\* C11: the audio behind a segment's feature vector consists only of
\* waveform samples with an index in [round(max(0,start)*sr), round(end*sr));
\* when the waveform has no sample in that range (the segment lies wholly
\* before time 0 or wholly past the end of the audio) the silence buffer is
\* used.  No segment gets samples from outside its own time range.
OwnSamples(seg, len) == RangeOf(seg) \cap 0..(len - 1)

SamplesUsed(f) == IF f.src = "audio" THEN f.lo..(f.hi - 1) ELSE {}

C11_OwnSamplesOnly ==
    \A i \in 1..Len(feats) :
        /\ SamplesUsed(feats[i]) \subseteq OwnSamples(sanitized[i], audio)
        /\ OwnSamples(sanitized[i], audio) = {} => feats[i].src = "silence"

\* C12: when a dependency cannot be imported, the call raises the
\* missing-dependency error (RuntimeError) as its first step: no segment is
\* validated, the audio is not loaded and nothing is returned, also for an
\* empty list and for a list with invalid segments; and that error is never
\* raised once the call has gone past its first step.
C12_DepsCheckedFirst ==
    /\ ~ deps =>
        /\ pc \in {"call", "raised"}
        /\ pc = "raised" => raised = "RuntimeError"
        /\ sanitized = << >> /\ loads = 0 /\ feats = << >>
        /\ fitCalls = 0 /\ results = << >>
    /\ raised = "RuntimeError" =>
        (~ deps /\ sanitized = << >> /\ loads = 0 /\ feats = << >>)
    /\ (deps /\ pc # "call") => raised # "RuntimeError"

\* C12 witness: the dependencies are missing and the list holds an invalid
\* segment after two valid ones; the call has raised RuntimeError.
C12_Witness ==
    /\ ~ deps
    /\ pc = "raised" /\ raised = "RuntimeError"
    /\ Len(segments) = 3
    /\ ValidSegment(segments[1]) /\ ValidSegment(segments[2])
    /\ InvalidSegment(segments[3])

====
